---- MODULE Spec2Model ----
(***************************************************************************)
(* State-machine model of the backend's infrastructure layer:              *)
(*   - RedisLock (app/core/lock/redis_lock.py): a distributed lock kept in *)
(*     a shared key-value store, with a per-context name->token map;       *)
(*   - UnitOfWork / transactional (app/database/session.py).               *)
(* Every await of the source is a scheduling point: the step that a store  *)
(* call performs at the store and the continuation of the coroutine that   *)
(* receives the reply are separate actions.                                *)
(***************************************************************************)
EXTENDS Integers, Sequences, FiniteSets, TLC

(***************************************************************************)
(* Bounds of the model.                                                    *)
(***************************************************************************)
\* uuid4 values a task may have in use at once (drawn, stored or recorded)
TokensPerTask == 3
\* largest ttl argument (seconds) passed to acquire / extend
MaxTTL == 2
\* largest positive timeout argument, in clock ticks
MaxTimeout == 3
\* the ghost counter of set attempts of one acquire call saturates here
AttemptCap == 2
\* number of `async with uow` scopes opened on the one UnitOfWork instance
NumScopes == 2
\* longest time (seconds) a downstream call takes
MaxElapsed == 2
\* number of calls made to the LLM manager
MaxCalls == 3
\* deepest nesting of `async with lock.lock(...)` blocks in one task
MaxDepth == 2

(***************************************************************************)
(* Time.  One clock tick is half of the polling interval of acquire        *)
(* (asyncio.sleep(0.1)), so that min(0.1, timeout - elapsed) takes both    *)
(* of its values; ttl arguments are whole seconds.                         *)
(***************************************************************************)
\* the polling interval 0.1 s of asyncio.sleep, in ticks
PollTicks == 2
TicksPerSecond == 10 * PollTicks

\* the concurrent asyncio tasks that use the lock
Tasks == {1, 2}
Names == {"job"}
TTLs == 1..MaxTTL
\* Optional[float]: <<>> is None, <<v>> is the value v (in ticks)
NoTimeout == <<>>
Timeouts == {NoTimeout} \cup {<<v>> : v \in 0..MaxTimeout}

\* None: an unset ContextVar, a missing dict entry, a missing key, a nil reply
None == 0
\* the uuid4 values task t draws
Pool(t) == ((t - 1) * TokensPerTask + 1)..(t * TokensPerTask)

Min(a, b) == IF a <= b THEN a ELSE b

VARIABLES
    ctx,        \* ctx[t]: value of the ContextVar _LOCK_TOKENS in task t's context:
                \*         None, or the identity of a dict (the task that created it)
    maps,       \* maps[m][n]: the dict object m: token recorded for name n, or None
    store,      \* store[key]: value and remaining time-to-live of the key, or Absent
    pc,         \* pc[t]: where task t is: "new" (not created), "idle" (in its own
                \*        code), "call" (a store call is in flight), "resume" (the
                \*        reply is there), "sleep" (in asyncio.sleep), "done" (returned)
    op,         \* op[t]: the call task t is in: kind, name, ttl, timeout
    tok,        \* tok[t]: the local variable `token` of the running call
    reply,      \* reply[t]: reply of the store call being awaited
    elapsed,    \* elapsed[t]: loop.time() - start_time of the running acquire
    sleepRem,   \* sleepRem[t]: what is left of the running asyncio.sleep
    res,        \* res[t]: result of the call that has returned
    err,        \* err[t]: a store call of the running call failed
    attempts,   \* attempts[t]: set attempts of the running acquire (saturating)
    lateSets,   \* lateSets[t]: those of them issued with elapsed >= timeout > 0
    grants,     \* grants[key]: tokens whose SET NX succeeded since the key was last absent
    uowSession, \* the attribute self.session of the UnitOfWork instance, or None
    made,       \* number of sessions the session factory has produced
    slog,       \* slog[x]: the calls session x has received, in order
    spc,        \* spc[s]: where scope s is: "out", "body", "exit" (commit or rollback
                \*         awaited), "close" (close awaited), "exited"
    parent,     \* parent[s]: the scope in whose body s was opened (a @transactional
                \*            method calling another), or None: opened by a task of its own
    mine,       \* mine[s]: the session scope s obtained at its entry
    exc,        \* exc[s]: how the body of s ended (BodyOutcomes)
    did,        \* did[s]: the calls the exit of s made: <<call, session>>, in order
    raised,     \* raised[s]: what the scope raised to its caller, or "none"
    mwPc,       \* MongoDBLoggingMiddleware.dispatch: "idle", "down" (call_next awaited),
                \*   "log" / "elog" (create awaited on the success / failure path), "done"
    mwReq,      \* the request: path, method, state.user_id, client host
    mwDown,     \* what call_next did: a response with its status, or an exception
    mwElapsed,  \* seconds since start_time
    mwCalls,    \* the records LogRepository.create was called with
    mwLogErr,   \* the exception LogRepository.create raised, or NoError
    mwOut,      \* what dispatch did: the response it returned or the exception it raised
    ehIn,       \* ehIn[i]: the request and the exception handler run i was called with
    ehOut,      \* ehOut[i]: the JSONResponse handler run i returned
    llmSettings,    \* `settings` as llm_manager.py imports it: "unloaded", "no_key"
                    \*   (it has no attribute OPENAI_API_KEY), "key" (it has one)
    llmModels,      \* LLMManager._models: identifier -> client instance (None: no entry)
    llmInitialized, \* LLMManager._initialized
    llmMade,        \* number of ChatOpenAI instances constructed; instance k is the k-th
    llmBuilt,       \* llmBuilt[n]: number of clients constructed for identifier n
    llmRet,         \* the calls made and what they returned, in order
    ridPc,      \* RequestIDMiddleware.dispatch: "idle", "down" (call_next awaited), "done"
    ridReq,     \* the request: path, method, and the inbound X-Request-ID header
    ridLocal,   \* the local variable request_id
    ridState,   \* request.state.request_id
    ridGen,     \* number of calls of self.generator for this request
    scFrames,   \* scFrames[t]: the `async with lock.lock(name)` blocks task t is in,
                \*   outermost first: name, phase ("acquire": acquire awaited, "body",
                \*   "release": release awaited), the value yielded, the numbers of
                \*   acquire and release calls made, how the body ended
    scLast,     \* scLast[t]: the block task t left last
    ridOut      \* what dispatch did: the response returned, with its X-Request-ID
                \* header, or the exception raised

lockVars == <<ctx, maps, store, pc, op, tok, reply, elapsed, sleepRem, res, err,
              attempts, lateSets, grants>>
uowVars == <<uowSession, made, slog, spc, parent, mine, exc, did, raised>>
mwVars == <<mwPc, mwReq, mwDown, mwElapsed, mwCalls, mwLogErr, mwOut>>
ehVars == <<ehIn, ehOut>>
llmVars == <<llmSettings, llmModels, llmInitialized, llmMade, llmBuilt, llmRet>>
ridVars == <<ridPc, ridReq, ridLocal, ridState, ridGen, ridOut>>
scVars == <<scFrames, scLast>>
vars == <<lockVars, uowVars, mwVars, ehVars, llmVars, ridVars, scVars>>
nonLockVars == <<uowVars, mwVars, ehVars, llmVars, ridVars, scVars>>
nonUowVars == <<lockVars, mwVars, ehVars, llmVars, ridVars, scVars>>
nonMwVars == <<lockVars, uowVars, ehVars, llmVars, ridVars, scVars>>
nonEhVars == <<lockVars, uowVars, mwVars, llmVars, ridVars, scVars>>
nonLlmVars == <<lockVars, uowVars, mwVars, ehVars, ridVars, scVars>>
nonRidVars == <<lockVars, uowVars, mwVars, ehVars, llmVars, scVars>>
\* what neither RedisLock nor DistributedLock.lock touches
nonScopedVars == <<uowVars, mwVars, ehVars, llmVars, ridVars>>

(***************************************************************************)
(* The store.                                                              *)
(***************************************************************************)
LockKey(n) == <<"lock:", n>>
Keys == {LockKey(n) : n \in Names}
Absent == [tok |-> None, rem |-> 0]

\* SET key token NX EX ttl
SetNXOverwrite(st, key, token, ttl) ==
    [store |-> [st EXCEPT ![key] = [tok |-> token, rem |-> ttl * TicksPerSecond]],
     ok |-> TRUE]
SetNX(st, key, token, ttl) ==
    IF st[key] = Absent
    THEN [store |-> [st EXCEPT ![key] = [tok |-> token, rem |-> ttl * TicksPerSecond]],
          ok |-> TRUE]
    ELSE [store |-> st, ok |-> FALSE]

\* RELEASE_SCRIPT: get == ARGV[1] ? del : 0
ReleaseScriptNoCompare(st, key, token) ==
    IF st[key] # Absent
    THEN [store |-> [st EXCEPT ![key] = Absent], n |-> 1]
    ELSE [store |-> st, n |-> 0]
ReleaseScript(st, key, token) ==
    IF st[key] # Absent /\ st[key].tok = token
    THEN [store |-> [st EXCEPT ![key] = Absent], n |-> 1]
    ELSE [store |-> st, n |-> 0]

\* EXTEND_SCRIPT: get == ARGV[1] ? expire ARGV[2] : 0
ExtendScriptAddsTtl(st, key, token, ttl) ==
    IF st[key] # Absent /\ st[key].tok = token
    THEN [store |-> [st EXCEPT ![key].rem = @ + ttl * TicksPerSecond], n |-> 1]
    ELSE [store |-> st, n |-> 0]
ExtendScriptNoCompare(st, key, token, ttl) ==
    IF st[key] # Absent
    THEN [store |-> [st EXCEPT ![key].rem = ttl * TicksPerSecond], n |-> 1]
    ELSE [store |-> st, n |-> 0]
ExtendScript(st, key, token, ttl) ==
    IF st[key] # Absent /\ st[key].tok = token
    THEN [store |-> [st EXCEPT ![key].rem = ttl * TicksPerSecond], n |-> 1]
    ELSE [store |-> st, n |-> 0]

(***************************************************************************)
(* _get_token_map: the dict of the current context, created on first use.  *)
(***************************************************************************)
EmptyMap == [n \in Names |-> None]
TokenMapId(t) == IF ctx[t] = None THEN t ELSE ctx[t]
CtxAfterGet(t) == [ctx EXCEPT ![t] = TokenMapId(t)]

\* str(uuid.uuid4()): a value that no place of the system holds
UsedTokens ==
    {store[k].tok : k \in Keys} \cup {tok[t] : t \in Tasks}
    \cup {maps[m][n] : m \in Tasks, n \in Names}
    \cup UNION {grants[k] : k \in Keys}
FreshToken(t) == CHOOSE k \in Pool(t) :
    k \notin UsedTokens /\ \A j \in Pool(t) : j < k => j \in UsedTokens

Scopes == 1..NumScopes
\* every scope obtains one session from the factory
Sessions == 1..NumScopes

\* requests: url.path, method, state.user_id (None: attribute not set) and
\* client.host (None: request.client is None)
Paths == {"/users", "/chat"}
Methods == {"GET", "POST"}
UserIds == {None, 7}
ClientHosts == {None, 10}
Requests == [path : Paths, method : Methods, user : UserIds, client : ClientHosts]
NoRequest == [path |-> "", method |-> "", user |-> None, client |-> None]
\* what a call ends with: nothing yet, a response, or an exception (an Exception
\* subclass) identified by its name
Nothing == [kind |-> "none", status |-> 0, error |-> ""]
Responded(status) == [kind |-> "response", status |-> status, error |-> ""]
Raised(e) == [kind |-> "error", status |-> 0, error |-> e]
\* no exception
NoError == ""
DownStatuses == {200, 404}
DownErrors == {"ValueError", "KeyError"}
LogErrors == {"ServerSelectionTimeoutError"}

\* two runs of the exception handlers, to compare what they return
Runs == {1, 2}
\* request.state.request_id ("": the attribute is not set, getattr gives None)
RequestIds == {"", "req-1"}
\* HTTPException.status_code: the codes of error_code_map and two others
TableStatuses == {400, 401, 403, 404, 405, 409, 422, 429, 500, 502, 503, 504}
Statuses == TableStatuses \cup {418, 501}
\* HTTPException.detail and str(exc) of an unclassified exception
Details == {"no such user", "connect to 10.0.0.5 failed"}
ExcTypes == {"KeyError", "RuntimeError"}
NoCall == [handler |-> "none", rid |-> "", path |-> "", status |-> 0, detail |-> "",
           type |-> ""]
NoResponse == [status |-> 0, body |-> [code |-> "", message |-> ""]]

\* ModelName, in the order of the enumeration, and an identifier that is none of them
ModelOrder == <<"gpt-4o-mini", "gpt-4o", "gpt-5">>
ModelNames == {ModelOrder[k] : k \in 1..Len(ModelOrder)}
AskedNames == ModelNames \cup {"gpt-3"}

\* a header: <<>> when the message does not carry it, <<v>> when it carries it
\* with the value v
NoHeader == <<>>
InboundHeaders == {NoHeader, <<"">>, <<"abc">>, <<"xyz">>}
ResponseHeaders == {NoHeader, <<"downstream">>}
\* values of self.generator(), by default str(uuid.uuid4())
GeneratedIds == {"uuid-1", "uuid-2"}

NoFrame == [name |-> "", phase |-> "none", acquired |-> FALSE, nAcq |-> 0,
            nRel |-> 0, ended |-> "none"]

NoOp == [kind |-> "none", name |-> "", ttl |-> 0, timeout |-> NoTimeout]

Init ==
    /\ ctx = [t \in Tasks |-> None]
    /\ maps = [m \in Tasks |-> EmptyMap]
    /\ store = [k \in Keys |-> Absent]
    /\ pc = [t \in Tasks |-> "new"]
    /\ op = [t \in Tasks |-> NoOp]
    /\ tok = [t \in Tasks |-> None]
    /\ reply = [t \in Tasks |-> "none"]
    /\ elapsed = [t \in Tasks |-> 0]
    /\ sleepRem = [t \in Tasks |-> 0]
    /\ res = [t \in Tasks |-> "none"]
    /\ err = [t \in Tasks |-> FALSE]
    /\ attempts = [t \in Tasks |-> 0]
    /\ lateSets = [t \in Tasks |-> 0]
    /\ grants = [k \in Keys |-> {}]
    /\ uowSession = None
    /\ made = 0
    /\ slog = [x \in Sessions |-> <<>>]
    /\ spc = [s \in Scopes |-> "out"]
    /\ parent = [s \in Scopes |-> None]
    /\ mine = [s \in Scopes |-> None]
    /\ exc = [s \in Scopes |-> "none"]
    /\ did = [s \in Scopes |-> <<>>]
    /\ raised = [s \in Scopes |-> "none"]
    /\ mwPc = "idle"
    /\ mwReq = NoRequest
    /\ mwDown = Nothing
    /\ mwElapsed = 0
    /\ mwCalls = <<>>
    /\ mwLogErr = NoError
    /\ mwOut = Nothing
    /\ ehIn = [i \in Runs |-> NoCall]
    /\ ehOut = [i \in Runs |-> NoResponse]
    /\ llmSettings = "unloaded"
    /\ llmModels = [n \in ModelNames |-> None]
    /\ llmInitialized = FALSE
    /\ llmMade = 0
    /\ llmBuilt = [n \in ModelNames |-> 0]
    /\ llmRet = <<>>
    /\ scFrames = [t \in Tasks |-> <<>>]
    /\ scLast = [t \in Tasks |-> NoFrame]
    /\ ridPc = "idle"
    /\ ridReq = [path |-> "", method |-> "", header |-> NoHeader]
    /\ ridLocal = ""
    /\ ridState = ""
    /\ ridGen = 0
    /\ ridOut = [kind |-> "none", status |-> 0, error |-> "", header |-> NoHeader]

(***************************************************************************)
(* Tasks.  A task started from the server's base context finds the         *)
(* ContextVar unset; asyncio.create_task gives the child a copy of the     *)
(* parent's context, in which the variable holds what it held in the       *)
(* parent: the same dict object, when the parent has one.                  *)
(***************************************************************************)
CreateRoot(t) ==
    /\ pc[t] = "new"
    /\ pc' = [pc EXCEPT ![t] = "idle"]
    /\ UNCHANGED <<ctx, maps, store, op, tok, reply, elapsed, sleepRem, res, err,
                   attempts, lateSets, grants>>
    /\ UNCHANGED nonLockVars

SpawnCtx(p) == ctx[p]

Spawn(p, c) ==
    /\ p # c
    /\ pc[p] = "idle"
    /\ pc[c] = "new"
    /\ pc' = [pc EXCEPT ![c] = "idle"]
    /\ ctx' = [ctx EXCEPT ![c] = SpawnCtx(p)]
    /\ UNCHANGED <<maps, store, op, tok, reply, elapsed, sleepRem, res, err,
                   attempts, lateSets, grants>>
    /\ UNCHANGED nonLockVars

Call(kind, n, ttl, timeout) ==
    [kind |-> kind, name |-> n, ttl |-> ttl, timeout |-> timeout]

\* the call returns (or raises): the task is back in its own code
Return(t, r) ==
    /\ pc' = [pc EXCEPT ![t] = "done"]
    /\ res' = [res EXCEPT ![t] = r]
    /\ tok' = [tok EXCEPT ![t] = None]
    /\ reply' = [reply EXCEPT ![t] = "none"]

\* the caller has looked at the result and goes on
FinishCall(t) ==
    /\ pc[t] = "done"
    /\ pc' = [pc EXCEPT ![t] = "idle"]
    /\ op' = [op EXCEPT ![t] = NoOp]
    /\ res' = [res EXCEPT ![t] = "none"]
    /\ err' = [err EXCEPT ![t] = FALSE]
    /\ elapsed' = [elapsed EXCEPT ![t] = 0]
    /\ attempts' = [attempts EXCEPT ![t] = 0]
    /\ lateSets' = [lateSets EXCEPT ![t] = 0]
    /\ UNCHANGED <<ctx, maps, store, tok, reply, sleepRem, grants>>

Finish(t) == FinishCall(t) /\ UNCHANGED nonLockVars

\* `client = await get_redis_client()` raises: it stands before the try of every
\* operation (lines 65, 103, 129, 151, 164), so the operation raises
ClientFails(t, o) ==
    /\ pc[t] = "idle"
    /\ op' = [op EXCEPT ![t] = o]
    /\ err' = [err EXCEPT ![t] = TRUE]
    /\ Return(t, "raised")
    /\ UNCHANGED <<ctx, maps, store, elapsed, sleepRem, attempts, lateSets, grants>>
    /\ UNCHANGED nonLockVars

\* the store call in flight raises (lines 74, 112, 138, 154, 172)
StoreCallFails(t) ==
    /\ pc[t] = "call"
    /\ reply' = [reply EXCEPT ![t] = "err"]
    /\ pc' = [pc EXCEPT ![t] = "resume"]
    /\ err' = [err EXCEPT ![t] = TRUE]
    /\ UNCHANGED <<ctx, maps, store, op, tok, elapsed, sleepRem, res, attempts, lateSets,
                   grants>>
    /\ UNCHANGED nonLockVars

\* except Exception: log, return False (lines 94-96, 120-122, 145-147, 155-157, 174-176)
OnError(t) == "false"

ResumeError(t) ==
    /\ pc[t] = "resume"
    /\ reply[t] = "err"
    /\ Return(t, OnError(t))
    /\ UNCHANGED <<ctx, maps, store, op, elapsed, sleepRem, err, attempts, lateSets,
                   grants>>
    /\ UNCHANGED nonLockVars

(***************************************************************************)
(* RedisLock.acquire                                                       *)
(***************************************************************************)
\* lines 65-74: the client is obtained, start_time is read, the token is drawn and
\* the first set is issued
StartAcquireCall(t, n, ttl, timeout) ==
    /\ pc[t] = "idle"
    /\ op' = [op EXCEPT ![t] = Call("acquire", n, ttl, timeout)]
    /\ tok' = [tok EXCEPT ![t] = FreshToken(t)]
    /\ pc' = [pc EXCEPT ![t] = "call"]
    /\ elapsed' = [elapsed EXCEPT ![t] = 0]
    /\ attempts' = [attempts EXCEPT ![t] = 1]
    /\ UNCHANGED <<ctx, maps, store, reply, sleepRem, res, err, lateSets, grants>>

StartAcquire(t, n, ttl, timeout) == StartAcquireCall(t, n, ttl, timeout) /\ UNCHANGED nonLockVars

\* line 74 at the store: client.set(lock_key, token, nx=True, ex=ttl)
AcquireSet(t) ==
    /\ pc[t] = "call"
    /\ op[t].kind = "acquire"
    /\ LET r == SetNX(store, LockKey(op[t].name), tok[t], op[t].ttl) IN
        /\ store' = r.store
        /\ reply' = [reply EXCEPT ![t] = IF r.ok THEN "1" ELSE "0"]
        /\ grants' = IF r.ok
                     THEN [grants EXCEPT ![LockKey(op[t].name)] = @ \cup {tok[t]}]
                     ELSE grants
    /\ pc' = [pc EXCEPT ![t] = "resume"]
    /\ UNCHANGED <<ctx, maps, op, tok, elapsed, sleepRem, res, err, attempts, lateSets>>
    /\ UNCHANGED nonLockVars

\* lines 75-81: acquired: the token goes into the map of the current context
AcquireRecord(t) ==
    /\ pc[t] = "resume"
    /\ op[t].kind = "acquire"
    /\ reply[t] = "1"
    /\ ctx' = CtxAfterGet(t)
    /\ maps' = [maps EXCEPT ![TokenMapId(t)][op[t].name] = tok[t]]
    /\ Return(t, "true")
    /\ UNCHANGED <<store, op, elapsed, sleepRem, err, attempts, lateSets, grants>>
    /\ UNCHANGED nonLockVars

\* lines 83-92: not acquired: return False, or sleep and try again
AfterMissZeroFails(timeout, e) ==
    IF timeout = NoTimeout \/ e >= timeout[1]
    THEN [act |-> "return", sleep |-> 0]
    ELSE [act |-> "sleep", sleep |-> Min(PollTicks, timeout[1] - e)]
AfterMissNoneWaits(timeout, e) ==
    IF timeout = NoTimeout \/ timeout[1] = 0
    THEN [act |-> "sleep", sleep |-> PollTicks]
    ELSE IF e >= timeout[1]
    THEN [act |-> "return", sleep |-> 0]
    ELSE [act |-> "sleep", sleep |-> Min(PollTicks, timeout[1] - e)]
AfterMissEarly(timeout, e) ==
    IF timeout = NoTimeout
    THEN [act |-> "return", sleep |-> 0]
    ELSE IF timeout[1] = 0
    THEN [act |-> "sleep", sleep |-> PollTicks]
    ELSE IF e + PollTicks >= timeout[1]
    THEN [act |-> "return", sleep |-> 0]
    ELSE [act |-> "sleep", sleep |-> Min(PollTicks, timeout[1] - e)]
AfterMiss(timeout, e) ==
    IF timeout = NoTimeout
    THEN [act |-> "return", sleep |-> 0]
    ELSE IF timeout[1] = 0
    THEN [act |-> "sleep", sleep |-> PollTicks]
    ELSE IF e >= timeout[1]
    THEN [act |-> "return", sleep |-> 0]
    ELSE [act |-> "sleep", sleep |-> Min(PollTicks, timeout[1] - e)]

\* lines 84, 91: return False
AcquireMissReturn(t) ==
    /\ pc[t] = "resume"
    /\ op[t].kind = "acquire"
    /\ reply[t] = "0"
    /\ AfterMiss(op[t].timeout, elapsed[t]).act = "return"
    /\ Return(t, "false")
    /\ UNCHANGED <<ctx, maps, store, op, elapsed, sleepRem, err, attempts, lateSets,
                   grants>>
    /\ UNCHANGED nonLockVars

\* lines 86, 92: asyncio.sleep
AcquireMissSleep(t) ==
    /\ pc[t] = "resume"
    /\ op[t].kind = "acquire"
    /\ reply[t] = "0"
    /\ AfterMiss(op[t].timeout, elapsed[t]).act = "sleep"
    /\ pc' = [pc EXCEPT ![t] = "sleep"]
    /\ sleepRem' = [sleepRem EXCEPT ![t] = AfterMiss(op[t].timeout, elapsed[t]).sleep]
    /\ reply' = [reply EXCEPT ![t] = "none"]
    /\ UNCHANGED <<ctx, maps, store, op, tok, elapsed, res, err, attempts, lateSets,
                   grants>>
    /\ UNCHANGED nonLockVars

\* the running acquire has a positive timeout that has passed
IsLate(t) ==
    /\ op[t].timeout # NoTimeout
    /\ op[t].timeout[1] > 0
    /\ elapsed[t] >= op[t].timeout[1]

\* the sleep is over: back to the top of the while loop, the next set is issued
AcquireWake(t) ==
    /\ pc[t] = "sleep"
    /\ sleepRem[t] = 0
    /\ pc' = [pc EXCEPT ![t] = "call"]
    /\ attempts' = [attempts EXCEPT ![t] = Min(@ + 1, AttemptCap)]
    /\ lateSets' = [lateSets EXCEPT ![t] = IF IsLate(t) THEN Min(@ + 1, AttemptCap) ELSE @]
    /\ UNCHANGED <<ctx, maps, store, op, tok, reply, elapsed, sleepRem, res, err, grants>>
    /\ UNCHANGED nonLockVars

(***************************************************************************)
(* RedisLock.release                                                       *)
(***************************************************************************)
\* lines 103-109: token = _get_token_map().get(name); no token: return False
StartReleaseCall(t, n) ==
    /\ pc[t] = "idle"
    /\ op' = [op EXCEPT ![t] = Call("release", n, 0, NoTimeout)]
    /\ ctx' = CtxAfterGet(t)
    /\ IF maps[TokenMapId(t)][n] = None
       THEN /\ Return(t, "false")
            /\ UNCHANGED <<maps, store, elapsed, sleepRem, err, attempts, lateSets,
                           grants>>
       ELSE /\ tok' = [tok EXCEPT ![t] = maps[TokenMapId(t)][n]]
            /\ pc' = [pc EXCEPT ![t] = "call"]
            /\ UNCHANGED <<maps, store, reply, elapsed, sleepRem, res, err, attempts,
                           lateSets, grants>>

StartRelease(t, n) == StartReleaseCall(t, n) /\ UNCHANGED nonLockVars

\* line 112 at the store: eval(RELEASE_SCRIPT, 1, lock_key, token)
ReleaseEval(t) ==
    /\ pc[t] = "call"
    /\ op[t].kind = "release"
    /\ LET r == ReleaseScript(store, LockKey(op[t].name), tok[t]) IN
        /\ store' = r.store
        /\ reply' = [reply EXCEPT ![t] = IF r.n = 1 THEN "1" ELSE "0"]
        /\ grants' = [k \in Keys |-> IF r.store[k] = Absent THEN {} ELSE grants[k]]
    /\ pc' = [pc EXCEPT ![t] = "resume"]
    /\ UNCHANGED <<ctx, maps, op, tok, elapsed, sleepRem, res, err, attempts, lateSets>>
    /\ UNCHANGED nonLockVars

\* lines 113-116: released: _get_token_map().pop(name, None)
ReleaseForget(t) ==
    /\ pc[t] = "resume"
    /\ op[t].kind = "release"
    /\ reply[t] = "1"
    /\ ctx' = CtxAfterGet(t)
    /\ maps' = [maps EXCEPT ![TokenMapId(t)][op[t].name] = None]
    /\ Return(t, "true")
    /\ UNCHANGED <<store, op, elapsed, sleepRem, err, attempts, lateSets, grants>>
    /\ UNCHANGED nonLockVars

\* lines 117-119: the script returned 0
ReleaseNotOwner(t) ==
    /\ pc[t] = "resume"
    /\ op[t].kind = "release"
    /\ reply[t] = "0"
    /\ Return(t, "false")
    /\ UNCHANGED <<ctx, maps, store, op, elapsed, sleepRem, err, attempts, lateSets,
                   grants>>
    /\ UNCHANGED nonLockVars

(***************************************************************************)
(* RedisLock.extend                                                        *)
(***************************************************************************)
\* lines 129-135
StartExtend(t, n, ttl) ==
    /\ pc[t] = "idle"
    /\ op' = [op EXCEPT ![t] = Call("extend", n, ttl, NoTimeout)]
    /\ ctx' = CtxAfterGet(t)
    /\ IF maps[TokenMapId(t)][n] = None
       THEN /\ Return(t, "false")
            /\ UNCHANGED <<maps, store, elapsed, sleepRem, err, attempts, lateSets,
                           grants>>
       ELSE /\ tok' = [tok EXCEPT ![t] = maps[TokenMapId(t)][n]]
            /\ pc' = [pc EXCEPT ![t] = "call"]
            /\ UNCHANGED <<maps, store, reply, elapsed, sleepRem, res, err, attempts,
                           lateSets, grants>>
    /\ UNCHANGED nonLockVars

\* line 138 at the store: eval(EXTEND_SCRIPT, 1, lock_key, token, ttl)
ExtendEval(t) ==
    /\ pc[t] = "call"
    /\ op[t].kind = "extend"
    /\ LET r == ExtendScript(store, LockKey(op[t].name), tok[t], op[t].ttl) IN
        /\ store' = r.store
        /\ reply' = [reply EXCEPT ![t] = IF r.n = 1 THEN "1" ELSE "0"]
    /\ pc' = [pc EXCEPT ![t] = "resume"]
    /\ UNCHANGED <<ctx, maps, op, tok, elapsed, sleepRem, res, err, attempts, lateSets,
                   grants>>
    /\ UNCHANGED nonLockVars

\* lines 139-144
ExtendResume(t) ==
    /\ pc[t] = "resume"
    /\ op[t].kind = "extend"
    /\ reply[t] \in {"0", "1"}
    /\ Return(t, IF reply[t] = "1" THEN "true" ELSE "false")
    /\ UNCHANGED <<ctx, maps, store, op, elapsed, sleepRem, err, attempts, lateSets,
                   grants>>
    /\ UNCHANGED nonLockVars

(***************************************************************************)
(* RedisLock.is_locked, RedisLock.is_owned_by_me                           *)
(***************************************************************************)
\* lines 151-152
StartIsLocked(t, n) ==
    /\ pc[t] = "idle"
    /\ op' = [op EXCEPT ![t] = Call("is_locked", n, 0, NoTimeout)]
    /\ pc' = [pc EXCEPT ![t] = "call"]
    /\ UNCHANGED <<ctx, maps, store, tok, reply, elapsed, sleepRem, res, err,
                   attempts, lateSets, grants>>
    /\ UNCHANGED nonLockVars

\* line 154 at the store: exists(lock_key)
IsLockedExists(t) ==
    /\ pc[t] = "call"
    /\ op[t].kind = "is_locked"
    /\ reply' = [reply EXCEPT
                   ![t] = IF store[LockKey(op[t].name)] # Absent THEN "1" ELSE "0"]
    /\ pc' = [pc EXCEPT ![t] = "resume"]
    /\ UNCHANGED <<ctx, maps, store, op, tok, elapsed, sleepRem, res, err, attempts,
                   lateSets, grants>>
    /\ UNCHANGED nonLockVars

\* lines 164-169
StartIsOwned(t, n) ==
    /\ pc[t] = "idle"
    /\ op' = [op EXCEPT ![t] = Call("is_owned_by_me", n, 0, NoTimeout)]
    /\ ctx' = CtxAfterGet(t)
    /\ IF maps[TokenMapId(t)][n] = None
       THEN /\ Return(t, "false")
            /\ UNCHANGED <<maps, store, elapsed, sleepRem, err, attempts, lateSets,
                           grants>>
       ELSE /\ tok' = [tok EXCEPT ![t] = maps[TokenMapId(t)][n]]
            /\ pc' = [pc EXCEPT ![t] = "call"]
            /\ UNCHANGED <<maps, store, reply, elapsed, sleepRem, res, err, attempts,
                           lateSets, grants>>
    /\ UNCHANGED nonLockVars

\* lines 172-173 at the store: get(lock_key), compared with the local token
IsOwnedGet(t) ==
    /\ pc[t] = "call"
    /\ op[t].kind = "is_owned_by_me"
    /\ reply' = [reply EXCEPT
                   ![t] = IF store[LockKey(op[t].name)].tok = tok[t] THEN "1" ELSE "0"]
    /\ pc' = [pc EXCEPT ![t] = "resume"]
    /\ UNCHANGED <<ctx, maps, store, op, tok, elapsed, sleepRem, res, err, attempts,
                   lateSets, grants>>
    /\ UNCHANGED nonLockVars

\* lines 154, 173: the answer is returned
QueryResume(t) ==
    /\ pc[t] = "resume"
    /\ op[t].kind \in {"is_locked", "is_owned_by_me"}
    /\ reply[t] \in {"0", "1"}
    /\ Return(t, IF reply[t] = "1" THEN "true" ELSE "false")
    /\ UNCHANGED <<ctx, maps, store, op, elapsed, sleepRem, err, attempts, lateSets,
                   grants>>
    /\ UNCHANGED nonLockVars

(***************************************************************************)
(* Time passes by d ticks: keys age and expire, clocks advance, sleeps run *)
(* down.                                                                   *)
(***************************************************************************)
Expire(st, d) ==
    [k \in Keys |-> IF st[k] = Absent \/ st[k].rem <= d THEN Absent
                    ELSE [st[k] EXCEPT !.rem = @ - d]]

Tick(d) ==
    /\ store' = Expire(store, d)
    /\ grants' = [k \in Keys |-> IF store'[k] = Absent THEN {} ELSE grants[k]]
    /\ elapsed' = [t \in Tasks |->
                     IF pc[t] \in {"call", "resume", "sleep"} /\ op[t].kind = "acquire"
                        /\ op[t].timeout # NoTimeout
                     THEN Min(elapsed[t] + d, op[t].timeout[1])
                     ELSE elapsed[t]]
    /\ sleepRem' = [t \in Tasks |-> IF sleepRem[t] > d THEN sleepRem[t] - d ELSE 0]
    /\ UNCHANGED <<ctx, maps, pc, op, tok, reply, res, err, attempts, lateSets>>
    /\ UNCHANGED nonLockVars

(***************************************************************************)
(* Specifications.                                                         *)
(***************************************************************************)
\* the steps of the calls in progress
LockSteps ==
    \/ \E t \in Tasks : Finish(t)
    \/ \E t \in Tasks : StoreCallFails(t)
    \/ \E t \in Tasks : ResumeError(t)
    \/ \E t \in Tasks : AcquireSet(t)
    \/ \E t \in Tasks : AcquireRecord(t)
    \/ \E t \in Tasks : AcquireMissReturn(t)
    \/ \E t \in Tasks : ReleaseEval(t)
    \/ \E t \in Tasks : ReleaseForget(t)
    \/ \E t \in Tasks : ReleaseNotOwner(t)

Kinds == {"acquire", "release", "extend", "is_locked", "is_owned_by_me"}

\* SpecLock: every operation of RedisLock, called by tasks of any ancestry; acquire
\* without timeout; time is observed at whole seconds.
LockNext ==
    \/ \E t \in Tasks : CreateRoot(t)
    \/ \E p, c \in Tasks : Spawn(p, c)
    \/ \E t \in Tasks, n \in Names, ttl \in TTLs : StartAcquire(t, n, ttl, NoTimeout)
    \/ \E t \in Tasks, n \in Names : StartRelease(t, n)
    \/ \E t \in Tasks, n \in Names, ttl \in TTLs : StartExtend(t, n, ttl)
    \/ \E t \in Tasks, n \in Names : StartIsLocked(t, n)
    \/ \E t \in Tasks, n \in Names : StartIsOwned(t, n)
    \/ \E t \in Tasks, n \in Names, k \in Kinds : ClientFails(t, Call(k, n, 0, NoTimeout))
    \/ LockSteps
    \/ \E t \in Tasks : ExtendEval(t)
    \/ \E t \in Tasks : ExtendResume(t)
    \/ \E t \in Tasks : IsLockedExists(t)
    \/ \E t \in Tasks : IsOwnedGet(t)
    \/ \E t \in Tasks : QueryResume(t)
    \/ Tick(TicksPerSecond)

SpecLock == Init /\ [][LockNext]_vars

\* SpecPoll: a task that waits for the lock (acquire with timeout 0 or positive)
\* against a task that takes it without waiting and releases it; time is observed at
\* every tick.  The event loop runs every coroutine that can run, and time passes.
Waiter == 1
Holder == 2

PollNext ==
    \/ \E t \in Tasks : CreateRoot(t)
    \/ \E n \in Names, timeout \in Timeouts \ {NoTimeout} :
          StartAcquire(Waiter, n, 1, timeout)
    \/ \E n \in Names : StartAcquire(Holder, n, 1, NoTimeout)
    \/ \E n \in Names : StartRelease(Holder, n)
    \/ LockSteps
    \/ \E t \in Tasks : AcquireMissSleep(t)
    \/ \E t \in Tasks : AcquireWake(t)
    \/ Tick(1)

\* what the event loop does for a call in progress of task t
Progress(t) ==
    \/ AcquireSet(t)
    \/ AcquireRecord(t)
    \/ AcquireMissReturn(t)
    \/ AcquireMissSleep(t)
    \/ AcquireWake(t)
    \/ ResumeError(t)
    \/ ReleaseEval(t)
    \/ ReleaseForget(t)
    \/ ReleaseNotOwner(t)

SpecPoll ==
    /\ Init
    /\ [][PollNext]_vars
    /\ WF_vars(Tick(1))
    /\ \A t \in Tasks : WF_vars(Progress(t))

(***************************************************************************)
(* DistributedLock.lock (app/core/lock/base.py), the scoped helper, over   *)
(* RedisLock.                                                              *)
(***************************************************************************)
Top(t) == scFrames[t][Len(scFrames[t])]
Pop(t) == [scFrames EXCEPT ![t] = SubSeq(@, 1, Len(@) - 1)]
SetTop(t, f) == [scFrames EXCEPT ![t][Len(scFrames[t])] = f]

\* line 81: `if acquired:`
ReleaseOnExitAlways(acquired) == TRUE
ReleaseOnExit(acquired) == acquired

\* one task nests its blocks, the other contends with single blocks
ScopeDepth(t) == IF t = 1 THEN MaxDepth ELSE 1

\* line 77: a task that is not inside a lock operation enters a block; acquire is
\* called
ScopeEnter(t, n, ttl) ==
    /\ Len(scFrames[t]) < ScopeDepth(t)
    /\ scFrames[t] # <<>> => Top(t).phase = "body"
    /\ StartAcquireCall(t, n, ttl, NoTimeout)
    /\ scFrames' = [scFrames EXCEPT ![t] =
                       Append(@, [name |-> n, phase |-> "acquire", acquired |-> FALSE,
                                  nAcq |-> 1, nRel |-> 0, ended |-> "none"])]
    /\ UNCHANGED <<scLast, nonScopedVars>>

\* lines 77-79: acquire has returned; its result is yielded to the body
ScopeYield(t) ==
    /\ scFrames[t] # <<>>
    /\ Top(t).phase = "acquire"
    /\ pc[t] = "done"
    /\ FinishCall(t)
    /\ scFrames' = SetTop(t, [Top(t) EXCEPT !.phase = "body",
                                            !.acquired = (res[t] = "true")])
    /\ UNCHANGED <<scLast, nonScopedVars>>

\* lines 79-82: the body ends, normally or raising; release is called when acquired
\* is true, and the block is left at once when it is not
ScopeBodyEnd(t, how) ==
    /\ scFrames[t] # <<>>
    /\ Top(t).phase = "body"
    /\ pc[t] = "idle"
    /\ IF ReleaseOnExit(Top(t).acquired)
       THEN /\ StartReleaseCall(t, Top(t).name)
            /\ scFrames' = SetTop(t, [Top(t) EXCEPT !.phase = "release",
                                                    !.nRel = @ + 1, !.ended = how])
            /\ UNCHANGED scLast
       ELSE /\ scFrames' = Pop(t)
            /\ scLast' = [scLast EXCEPT ![t] = [Top(t) EXCEPT !.phase = "left",
                                                             !.ended = how]]
            /\ UNCHANGED lockVars
    /\ UNCHANGED nonScopedVars

\* line 82: release has returned; the block is left
ScopeExit(t) ==
    /\ scFrames[t] # <<>>
    /\ Top(t).phase = "release"
    /\ pc[t] = "done"
    /\ FinishCall(t)
    /\ scFrames' = Pop(t)
    /\ scLast' = [scLast EXCEPT ![t] = [Top(t) EXCEPT !.phase = "left"]]
    /\ UNCHANGED nonScopedVars

ScopedNext ==
    \/ \E t \in Tasks : CreateRoot(t)
    \/ \E t \in Tasks, n \in Names : ScopeEnter(t, n, 1)
    \/ \E t \in Tasks : ScopeYield(t)
    \/ \E t \in Tasks, how \in {"normal", "raised"} : ScopeBodyEnd(t, how)
    \/ \E t \in Tasks : ScopeExit(t)
    \/ \E t \in Tasks : StoreCallFails(t)
    \/ \E t \in Tasks : ResumeError(t)
    \/ \E t \in Tasks : AcquireSet(t)
    \/ \E t \in Tasks : AcquireRecord(t)
    \/ \E t \in Tasks : AcquireMissReturn(t)
    \/ \E t \in Tasks : ReleaseEval(t)
    \/ \E t \in Tasks : ReleaseForget(t)
    \/ \E t \in Tasks : ReleaseNotOwner(t)
    \/ Tick(TicksPerSecond)

SpecScoped == Init /\ [][ScopedNext]_vars

(***************************************************************************)
(* UnitOfWork and transactional (app/database/session.py).  One UnitOfWork *)
(* instance, the `uow` of a service object; its scopes are opened by       *)
(* @transactional methods of that object, called by concurrent tasks or    *)
(* by one another.                                                         *)
(***************************************************************************)
\* how the body of a scope ends: "none" (it completes), "error" (it raises an
\* exception with the default truth value), "falsy_error" (it raises an exception
\* whose class defines __bool__ or __len__ so that bool(exc) is False),
\* "unbool_error" (it raises an exception whose __bool__ or __len__ itself raises)
BodyOutcomes == {"none", "error", "falsy_error", "unbool_error"}

\* line 15, `if exc:`: the truth test itself raises
TruthTestRaises(e) == e = "unbool_error"

\* line 15, bool(exc): None is false; an exception instance is true unless its
\* class says otherwise
Truthy(e) == e = "error"

\* lines 15-18: `if exc:` rollback, else commit
ExitCall(e) == IF Truthy(e) THEN "rollback" ELSE "commit"

\* a scope that has been entered and has not been left
Active(s) == spc[s] \notin {"out", "exited"}
Children(p) == {c \in Scopes : parent[c] = p /\ spc[c] # "out"}

\* lines 10-12, __aenter__: self.session = self.session_factory()
Enter(s, p) ==
    /\ spc[s] = "out"
    /\ p # s
    /\ p # None => spc[p] = "body" /\ \A c \in Children(p) : ~Active(c)
    /\ made' = made + 1
    /\ uowSession' = made + 1
    /\ mine' = [mine EXCEPT ![s] = made + 1]
    /\ parent' = [parent EXCEPT ![s] = p]
    /\ spc' = [spc EXCEPT ![s] = "body"]
    /\ UNCHANGED <<slog, exc, did, raised>>
    /\ UNCHANGED nonUowVars

\* lines 14-18: the body ends, normally or raising e, and __aexit__ calls commit
\* or rollback on what self.session is now; when the test of line 15 raises,
\* __aexit__ raises that exception at once and calls nothing
BodyEnd(s, e) ==
    /\ spc[s] = "body"
    /\ \A c \in Children(s) : ~Active(c)
    /\ exc' = [exc EXCEPT ![s] = e]
    /\ IF TruthTestRaises(e)
       THEN /\ raised' = [raised EXCEPT ![s] = "truth_test"]
            /\ spc' = [spc EXCEPT ![s] = "exited"]
            /\ UNCHANGED <<slog, did>>
       ELSE /\ slog' = [slog EXCEPT ![uowSession] = Append(@, ExitCall(e))]
            /\ did' = [did EXCEPT ![s] = Append(@, <<ExitCall(e), uowSession>>)]
            /\ spc' = [spc EXCEPT ![s] = "exit"]
            /\ UNCHANGED raised
    /\ UNCHANGED <<uowSession, made, parent, mine>>
    /\ UNCHANGED nonUowVars

\* lines 16, 18: the commit or rollback raises: __aexit__ raises, line 19 is not
\* reached
ExitCallFails(s) ==
    /\ spc[s] = "exit"
    /\ raised' = [raised EXCEPT ![s] = did[s][1][1]]
    /\ spc' = [spc EXCEPT ![s] = "exited"]
    /\ UNCHANGED <<uowSession, made, slog, parent, mine, exc, did>>
    /\ UNCHANGED nonUowVars

\* line 19: the commit or rollback is done; close is called on what self.session
\* is now
ExitClose(s) ==
    /\ spc[s] = "exit"
    /\ slog' = [slog EXCEPT ![uowSession] = Append(@, "close")]
    /\ did' = [did EXCEPT ![s] = Append(@, <<"close", uowSession>>)]
    /\ spc' = [spc EXCEPT ![s] = "close"]
    /\ UNCHANGED <<uowSession, made, parent, mine, exc, raised>>
    /\ UNCHANGED nonUowVars

\* line 19: close raises
CloseFails(s) ==
    /\ spc[s] = "close"
    /\ raised' = [raised EXCEPT ![s] = "close"]
    /\ spc' = [spc EXCEPT ![s] = "exited"]
    /\ UNCHANGED <<uowSession, made, slog, parent, mine, exc, did>>
    /\ UNCHANGED nonUowVars

\* __aexit__ returns None: the exception of the body, if any, goes on to the caller
\* (raised "none": `return await fn(...)` of the wrapper, line 26, gives the result)
AfterExit(e) == IF e # "none" THEN "body" ELSE "none"

Leave(s) ==
    /\ spc[s] = "close"
    /\ raised' = [raised EXCEPT ![s] = AfterExit(exc[s])]
    /\ spc' = [spc EXCEPT ![s] = "exited"]
    /\ UNCHANGED <<uowSession, made, slog, parent, mine, exc, did>>
    /\ UNCHANGED nonUowVars

UowNext ==
    \/ \E s \in Scopes, p \in Scopes \cup {None} : Enter(s, p)
    \/ \E s \in Scopes, e \in BodyOutcomes : BodyEnd(s, e)
    \/ \E s \in Scopes : ExitCallFails(s)
    \/ \E s \in Scopes : ExitClose(s)
    \/ \E s \in Scopes : CloseFails(s)
    \/ \E s \in Scopes : Leave(s)

SpecUow == Init /\ [][UowNext]_vars

(***************************************************************************)
(* MongoDBLoggingMiddleware.dispatch (app/middleware/tracking.py) and      *)
(* LogRepository.create (app/repository/log.py).                           *)
(***************************************************************************)
\* log.py lines 12-28: the Log document built from the arguments of create; an
\* argument that is not passed takes its default, None
LogRecord(called_api, method, status_code, user_id, response_time, ip_address) ==
    [called_api |-> called_api, method |-> method, status_code |-> status_code,
     user_id |-> user_id, response_time |-> response_time, ip_address |-> ip_address]

\* lines 103, 127: (time.time() - start_time) * 1000
ResponseTime(secs) == secs * 1000

\* lines 103-117: the create call of the success path
SuccessRecord(req, status, secs) ==
    LogRecord(req.path, req.method, status, req.user, ResponseTime(secs), req.client)

\* lines 127-137: the create call of the failure path (user_id is not passed)
FailureRecord(req, secs) ==
    LogRecord(req.path, req.method, 500, None, ResponseTime(secs), req.client)

\* one invocation of LogRepository.create
CreateCalledTwice(calls, rec) == Append(Append(calls, rec), rec)
CreateCalled(calls, rec) == Append(calls, rec)

\* line 144: the bare raise after the inner try statement re-raises the exception
\* the outer except clause caught
ReraiseLogError(e, logError) == IF logError = NoError THEN e ELSE logError
Reraise(e, logError) == e

\* lines 97-101
MwDispatch(req) ==
    /\ mwPc = "idle"
    /\ mwPc' = "down"
    /\ mwReq' = req
    /\ mwDown' = Nothing
    /\ mwElapsed' = 0
    /\ mwCalls' = <<>>
    /\ mwLogErr' = NoError
    /\ mwOut' = Nothing
    /\ UNCHANGED nonMwVars

\* time passes while call_next is awaited
MwTick ==
    /\ mwPc = "down"
    /\ mwElapsed < MaxElapsed
    /\ mwElapsed' = mwElapsed + 1
    /\ UNCHANGED <<mwPc, mwReq, mwDown, mwCalls, mwLogErr, mwOut>>
    /\ UNCHANGED nonMwVars

\* lines 101-117: call_next returns a response; create is called
DownReturns(status) ==
    /\ mwPc = "down"
    /\ mwDown' = Responded(status)
    /\ mwCalls' = CreateCalled(mwCalls, SuccessRecord(mwReq, status, mwElapsed))
    /\ mwPc' = "log"
    /\ UNCHANGED <<mwReq, mwElapsed, mwLogErr, mwOut>>
    /\ UNCHANGED nonMwVars

\* lines 126-137: call_next raises e; create is called
DownRaises(e) ==
    /\ mwPc = "down"
    /\ mwDown' = Raised(e)
    /\ mwCalls' = CreateCalled(mwCalls, FailureRecord(mwReq, mwElapsed))
    /\ mwPc' = "elog"
    /\ UNCHANGED <<mwReq, mwElapsed, mwLogErr, mwOut>>
    /\ UNCHANGED nonMwVars

\* lines 118-124: create is done, or raised le (caught and logged); the response is
\* returned
LogDone(le) ==
    /\ mwPc = "log"
    /\ mwLogErr' = le
    /\ mwOut' = mwDown
    /\ mwPc' = "done"
    /\ UNCHANGED <<mwReq, mwDown, mwElapsed, mwCalls>>
    /\ UNCHANGED nonMwVars

\* lines 138-144: create is done, or raised le (caught and logged); raise
ErrorLogDone(le) ==
    /\ mwPc = "elog"
    /\ mwLogErr' = le
    /\ mwOut' = Raised(Reraise(mwDown.error, le))
    /\ mwPc' = "done"
    /\ UNCHANGED <<mwReq, mwDown, mwElapsed, mwCalls>>
    /\ UNCHANGED nonMwVars

\* the next request
MwNext ==
    /\ mwPc = "done"
    /\ mwPc' = "idle"
    /\ UNCHANGED <<mwReq, mwDown, mwElapsed, mwCalls, mwLogErr, mwOut>>
    /\ UNCHANGED nonMwVars

LogNext ==
    \/ \E req \in Requests : MwDispatch(req)
    \/ MwTick
    \/ \E status \in DownStatuses : DownReturns(status)
    \/ \E e \in DownErrors : DownRaises(e)
    \/ \E le \in LogErrors \cup {NoError} : LogDone(le)
    \/ \E le \in LogErrors \cup {NoError} : ErrorLogDone(le)
    \/ MwNext

SpecLog == Init /\ [][LogNext]_vars

(***************************************************************************)
(* The exception handlers (app/core/exception/handler.py).                 *)
(***************************************************************************)
\* lines 15-39, ErrorResponse.create as the handlers call it: detail is not passed,
\* request_id is included when it is not empty, path (never empty) always
ErrorResponseCreate(error_code, message, request_id, path) ==
    IF request_id # ""
    THEN [code |-> error_code, message |-> message, request_id |-> request_id,
          path |-> path]
    ELSE [code |-> error_code, message |-> message, path |-> path]

\* lines 46-61: error_code_map.get(exc.status_code, "HTTP_ERROR")
ErrorCodeNoTable(status) == "HTTP_ERROR"
ErrorCode(status) ==
    CASE status = 400 -> "BAD_REQUEST"
      [] status = 401 -> "UNAUTHORIZED"
      [] status = 403 -> "FORBIDDEN"
      [] status = 404 -> "NOT_FOUND"
      [] status = 405 -> "METHOD_NOT_ALLOWED"
      [] status = 409 -> "CONFLICT"
      [] status = 422 -> "UNPROCESSABLE_ENTITY"
      [] status = 429 -> "RATE_LIMIT_EXCEEDED"
      [] status = 500 -> "INTERNAL_ERROR"
      [] status = 502 -> "BAD_GATEWAY"
      [] status = 503 -> "SERVICE_UNAVAILABLE"
      [] status = 504 -> "GATEWAY_TIMEOUT"
      [] OTHER -> "HTTP_ERROR"

\* lines 76-86: the response of http_exception_handler; message=str(exc.detail)
HttpExceptionResponse(c) ==
    [status |-> c.status,
     body |-> ErrorResponseCreate(ErrorCode(c.status), c.detail, c.rid, c.path)]

\* line 108: the message of general_exception_handler
GeneralMessageOfException(c) == c.detail
GeneralMessage(c) == "An unexpected error occurred"

\* lines 104-112: the response of general_exception_handler
GeneralExceptionResponse(c) ==
    [status |-> 500,
     body |-> ErrorResponseCreate("INTERNAL_ERROR", GeneralMessage(c), c.rid, c.path)]

\* lines 42-86: http_exception_handler(request, exc)
HandleHttp(i, rid, path, status, detail) ==
    /\ ehIn[i] = NoCall
    /\ ehIn' = [ehIn EXCEPT ![i] = [handler |-> "http", rid |-> rid, path |-> path,
                                    status |-> status, detail |-> detail,
                                    type |-> "HTTPException"]]
    /\ ehOut' = [ehOut EXCEPT ![i] = HttpExceptionResponse(ehIn'[i])]
    /\ UNCHANGED nonEhVars

\* lines 89-112: general_exception_handler(request, exc)
HandleGeneral(i, rid, path, type, message) ==
    /\ ehIn[i] = NoCall
    /\ ehIn' = [ehIn EXCEPT ![i] = [handler |-> "general", rid |-> rid, path |-> path,
                                    status |-> 0, detail |-> message, type |-> type]]
    /\ ehOut' = [ehOut EXCEPT ![i] = GeneralExceptionResponse(ehIn'[i])]
    /\ UNCHANGED nonEhVars

\* the run is over
HandlerReturned(i) ==
    /\ ehIn[i] # NoCall
    /\ ehIn' = [ehIn EXCEPT ![i] = NoCall]
    /\ ehOut' = [ehOut EXCEPT ![i] = NoResponse]
    /\ UNCHANGED nonEhVars

ErrNext ==
    \/ \E i \in Runs, rid \in RequestIds, path \in Paths, status \in Statuses,
          detail \in Details : HandleHttp(i, rid, path, status, detail)
    \/ \E i \in Runs, rid \in RequestIds, path \in Paths, type \in ExcTypes,
          message \in Details : HandleGeneral(i, rid, path, type, message)
    \/ \E i \in Runs : HandlerReturned(i)

SpecErr == Init /\ [][ErrNext]_vars

(***************************************************************************)
(* LLMManager (app/core/llm_manager.py).  Its methods are synchronous: a   *)
(* call is one step.                                                       *)
(***************************************************************************)
\* line 5 (setting.py line 52): the module imports `settings`.  The Settings
\* class of app/config/setting.py (lines 6-49) declares no OPENAI_API_KEY, so the
\* repository's own settings are "no_key"; "key" is a Settings that declares it.
ImportSettings(hasKey) ==
    /\ llmSettings = "unloaded"
    /\ llmSettings' = IF hasKey THEN "key" ELSE "no_key"
    /\ UNCHANGED <<llmModels, llmInitialized, llmMade, llmBuilt, llmRet>>
    /\ UNCHANGED nonLlmVars

\* lines 32, 43: `if not cls._initialized`
NeedsInit(initialized) == ~initialized

\* position of an identifier in the enumeration
ModelIndex(n) == CHOOSE k \in 1..Len(ModelOrder) : ModelOrder[k] = n

\* how a run of the loop of lines 33-37 goes: 0 when every ChatOpenAI(...) is
\* constructed, k when the k-th construction raises
FailAts == 0..Len(ModelOrder)

\* number of clients a run of the loop constructs and stores: none when
\* settings.OPENAI_API_KEY raises AttributeError in the first iteration (line 35),
\* those before the failing construction, or all
Constructed(failAt) ==
    IF llmSettings = "no_key" THEN 0
    ELSE IF failAt = 0 THEN Len(ModelOrder)
    ELSE failAt - 1

\* the exception that leaves _initialize, NoError when it returns
InitializeError(failAt) ==
    IF ~NeedsInit(llmInitialized) THEN NoError
    ELSE IF llmSettings = "no_key" THEN "AttributeError"
    ELSE IF failAt # 0 THEN "ConstructionError"
    ELSE NoError

\* lines 33-37: one ChatOpenAI per member of ModelName, in order, stored as it is
\* constructed
BuiltModels(failAt) ==
    [n \in ModelNames |-> IF ModelIndex(n) <= Constructed(failAt)
                          THEN llmMade + ModelIndex(n)
                          ELSE llmModels[n]]

\* lines 29-38, LLMManager._initialize, as a change of the class attributes;
\* line 38 is reached only when the loop has not raised
Initialize(failAt) ==
    IF NeedsInit(llmInitialized)
    THEN /\ llmModels' = BuiltModels(failAt)
         /\ llmMade' = llmMade + Constructed(failAt)
         /\ llmBuilt' = [n \in ModelNames |->
                           IF ModelIndex(n) <= Constructed(failAt)
                           THEN llmBuilt[n] + 1 ELSE llmBuilt[n]]
         /\ llmInitialized' = (InitializeError(failAt) = NoError)
    ELSE UNCHANGED <<llmModels, llmMade, llmBuilt, llmInitialized>>

\* what a call gave: the client returned (None when there is none), ok when it
\* returned normally (for check_llm_model: its answer), the exception it raised
LlmReturn(call, name, client, ok, error) ==
    [call |-> call, name |-> name, client |-> client, ok |-> ok, error |-> error]

\* lines 40-52, LLMManager.get_model: the exception of _initialize, or the
\* client, or ValueError
GetModelAs(call, name, failAt) ==
    /\ llmSettings # "unloaded"
    /\ Len(llmRet) < MaxCalls
    /\ Initialize(failAt)
    /\ llmRet' = Append(llmRet,
                        IF InitializeError(failAt) # NoError
                        THEN LlmReturn(call, name, None, FALSE, InitializeError(failAt))
                        ELSE IF name \in ModelNames /\ llmModels'[name] # None
                        THEN LlmReturn(call, name, llmModels'[name], TRUE, NoError)
                        ELSE LlmReturn(call, name, None, FALSE, "ValueError"))
    /\ UNCHANGED llmSettings
    /\ UNCHANGED nonLlmVars

GetModel(name, failAt) == GetModelAs("get_model", name, failAt)

\* lines 69-71, get_llm_model(model): LLMManager.get_model(model.value)
GetLlmModel(model, failAt) == GetModelAs("get_llm_model", model, failAt)

\* lines 60-62, initialize_llm_manager
InitializeLlmManager(failAt) ==
    /\ llmSettings # "unloaded"
    /\ Len(llmRet) < MaxCalls
    /\ Initialize(failAt)
    /\ llmRet' = Append(llmRet,
                        LlmReturn("initialize_llm_manager", "", None,
                                  InitializeError(failAt) = NoError,
                                  InitializeError(failAt)))
    /\ UNCHANGED llmSettings
    /\ UNCHANGED nonLlmVars

\* lines 64-66, check_llm_model
CheckLlmModel(name) ==
    /\ llmSettings # "unloaded"
    /\ Len(llmRet) < MaxCalls
    /\ llmRet' = Append(llmRet,
                        LlmReturn("check_llm_model", name, None, name \in ModelNames,
                                  NoError))
    /\ UNCHANGED <<llmSettings, llmModels, llmMade, llmBuilt, llmInitialized>>
    /\ UNCHANGED nonLlmVars

LlmNext ==
    \/ \E hasKey \in BOOLEAN : ImportSettings(hasKey)
    \/ \E name \in AskedNames, failAt \in FailAts : GetModel(name, failAt)
    \/ \E model \in ModelNames, failAt \in FailAts : GetLlmModel(model, failAt)
    \/ \E failAt \in FailAts : InitializeLlmManager(failAt)
    \/ \E name \in AskedNames : CheckLlmModel(name)

SpecLlm == Init /\ [][LlmNext]_vars

(***************************************************************************)
(* RequestIDMiddleware.dispatch (app/middleware/tracking.py).              *)
(***************************************************************************)
\* line 32: `request.headers.get(self.header_name) or self.generator()`: the
\* generator is called when the left operand is None or an empty string
UsesInboundNever(header) == FALSE
UsesInbound(header) == header # NoHeader /\ header[1] # ""

\* lines 31-42: the id is chosen and stored in request.state; call_next is awaited
RidDispatch(path, method, header, g) ==
    /\ ridPc = "idle"
    /\ ridReq' = [path |-> path, method |-> method, header |-> header]
    /\ ridLocal' = IF UsesInbound(header) THEN header[1] ELSE g
    /\ ridGen' = IF UsesInbound(header) THEN 0 ELSE 1
    /\ ridState' = ridLocal'
    /\ ridOut' = [kind |-> "none", status |-> 0, error |-> "", header |-> NoHeader]
    /\ ridPc' = "down"
    /\ UNCHANGED nonRidVars

\* lines 42-46: call_next returns a response, which may carry the header already;
\* the header is set to request_id
RidDownReturns(status, h) ==
    /\ ridPc = "down"
    /\ ridOut' = [kind |-> "response", status |-> status, error |-> "",
                  header |-> <<ridLocal>>]
    /\ ridPc' = "done"
    /\ UNCHANGED <<ridReq, ridLocal, ridState, ridGen>>
    /\ UNCHANGED nonRidVars

\* line 42: call_next raises; dispatch raises
RidDownRaises(e) ==
    /\ ridPc = "down"
    /\ ridOut' = [kind |-> "error", status |-> 0, error |-> e, header |-> NoHeader]
    /\ ridPc' = "done"
    /\ UNCHANGED <<ridReq, ridLocal, ridState, ridGen>>
    /\ UNCHANGED nonRidVars

\* the next request
RidNext ==
    /\ ridPc = "done"
    /\ ridPc' = "idle"
    /\ UNCHANGED <<ridReq, ridLocal, ridState, ridGen, ridOut>>
    /\ UNCHANGED nonRidVars

ReqIdNext ==
    \/ \E path \in Paths, method \in Methods, header \in InboundHeaders,
          g \in GeneratedIds : RidDispatch(path, method, header, g)
    \/ \E status \in DownStatuses, h \in ResponseHeaders : RidDownReturns(status, h)
    \/ \E e \in DownErrors : RidDownRaises(e)
    \/ RidNext

SpecReqId == Init /\ [][ReqIdNext]_vars

(***************************************************************************)
(* Properties of RedisLock.                                                *)
(***************************************************************************)
KeyOf(t) == LockKey(op[t].name)
InCall(t, kind) == pc[t] \in {"call", "resume", "sleep"} /\ op[t].kind = kind
Returned(t, kind) == pc[t] = "done" /\ op[t].kind = kind

\* C1: mutual exclusion of acquire.  Between the moment a key is set and the moment
\* it is removed (expiry or release) exactly one set-if-absent has succeeded on it,
\* the one whose token the key holds: no other attempt in that interval sets the key.
C1_MutualExclusion ==
    \A k \in Keys :
        /\ Cardinality(grants[k]) <= 1
        /\ store[k] = Absent => grants[k] = {}
        /\ store[k] # Absent => grants[k] = {store[k].tok}

\* a second task's set attempt was turned down while the first one's key is there
C1_Witness ==
    \E a, b \in Tasks :
        /\ a # b
        /\ Returned(a, "acquire") /\ res[a] = "true"
        /\ InCall(b, "acquire") /\ pc[b] = "resume" /\ reply[b] = "0"
        /\ store[KeyOf(a)] # Absent
        /\ store[KeyOf(a)].tok = maps[TokenMapId(a)][op[a].name]

\* C2: release is owner-only.  The script deletes the key exactly when it holds the
\* caller's token, and then release forgets the local token and returns true; with
\* another token in the key (or none) the store is left as it is and release returns
\* false; without a local token release returns false and the store is not touched.
C2_ReleaseOwnerOnly ==
    [][\A t \in Tasks :
        /\ (pc[t] = "call" /\ op[t].kind = "release" /\ pc'[t] = "resume"
            /\ reply'[t] # "err")
           => IF store[KeyOf(t)].tok = tok[t]
              THEN store'[KeyOf(t)] = Absent /\ reply'[t] = "1"
              ELSE store' = store /\ reply'[t] = "0"
        /\ (pc[t] = "resume" /\ op[t].kind = "release" /\ pc'[t] = "done"
            /\ reply[t] # "err")
           => /\ store' = store
              /\ IF reply[t] = "1"
                 THEN res'[t] = "true" /\ maps'[TokenMapId(t)][op[t].name] = None
                 ELSE res'[t] = "false" /\ maps' = maps
        /\ (pc[t] = "idle" /\ op'[t].kind = "release" /\ ~err'[t]
            /\ maps[TokenMapId(t)][op'[t].name] = None)
           => pc'[t] = "done" /\ res'[t] = "false" /\ store' = store /\ maps' = maps
      ]_vars

\* a release by a task whose token is no longer the key's value was turned down
\* and the key of the new holder is still there
C2_Witness ==
    \E t \in Tasks :
        /\ Returned(t, "release") /\ res[t] = "false" /\ ~err[t]
        /\ maps[TokenMapId(t)][op[t].name] # None
        /\ store[KeyOf(t)] # Absent
        /\ store[KeyOf(t)].tok # maps[TokenMapId(t)][op[t].name]

\* C3: extend by a non-owner (no local token, or a local token that is not the
\* key's value) returns false and leaves the key's value and remaining ttl as
\* they are.
C3_ExtendNonOwner ==
    [][\A t \in Tasks :
        /\ (pc[t] = "call" /\ op[t].kind = "extend" /\ pc'[t] = "resume"
            /\ reply'[t] # "err" /\ store[KeyOf(t)].tok # tok[t])
           => store' = store /\ reply'[t] = "0"
        /\ (pc[t] = "resume" /\ op[t].kind = "extend" /\ pc'[t] = "done"
            /\ reply[t] = "0")
           => res'[t] = "false" /\ store' = store
        /\ (pc[t] = "idle" /\ op'[t].kind = "extend" /\ ~err'[t]
            /\ maps[TokenMapId(t)][op'[t].name] = None)
           => pc'[t] = "done" /\ res'[t] = "false" /\ store' = store
      ]_vars

\* an extend with a longer ttl by a former holder was turned down, and the key of
\* the new holder still has the ttl it was set with
C3_Witness ==
    \E t \in Tasks :
        /\ Returned(t, "extend") /\ res[t] = "false" /\ ~err[t]
        /\ op[t].ttl = MaxTTL
        /\ maps[TokenMapId(t)][op[t].name] # None
        /\ store[KeyOf(t)] # Absent
        /\ store[KeyOf(t)].tok # maps[TokenMapId(t)][op[t].name]
        /\ store[KeyOf(t)].rem = TicksPerSecond

\* C4: the token map is private to a task: the token that release, extend or
\* is_owned_by_me of task b presents to the store is one that an acquire of b drew.
C4_TokenMapPrivate ==
    \A b \in Tasks :
        (pc[b] \in {"call", "resume"}
         /\ op[b].kind \in {"release", "extend", "is_owned_by_me"})
        => tok[b] \in Pool(b)

Waiting0(t) == InCall(t, "acquire") /\ op[t].timeout = <<0>>
Timed(t) ==
    op[t].kind = "acquire" /\ op[t].timeout # NoTimeout /\ op[t].timeout[1] > 0

\* (Waiter is the one task that polls; the waiting clauses are stated for it.)
\* C5 as claimed: acquire(name, timeout=0) never returns false while the store is
\* reachable, and once the key is removed the waiting call eventually sets the key
\* and returns true.
C5_Original ==
    /\ [](\A t \in Tasks :
            (Returned(t, "acquire") /\ op[t].timeout = <<0>> /\ ~err[t])
            => res[t] = "true")
    /\ (Waiting0(Waiter) /\ store[KeyOf(Waiter)] = Absent)
       ~> ((Returned(Waiter, "acquire") /\ res[Waiter] = "true") \/ err[Waiter])

\* C5 amended: acquire(name, timeout=0) never returns false while the store is
\* reachable; it keeps polling (after every sleep it tries again); and once the key
\* is removed it eventually sets the key and returns true, unless another acquire
\* has set the key before its next attempt.
C5_PollsUntilAcquired ==
    /\ [](\A t \in Tasks :
            (Returned(t, "acquire") /\ op[t].timeout = <<0>> /\ ~err[t])
            => res[t] = "true")
    /\ (Waiting0(Waiter) /\ pc[Waiter] = "sleep") ~> (pc[Waiter] = "call")
    /\ (Waiting0(Waiter) /\ store[KeyOf(Waiter)] = Absent)
       ~> \/ Returned(Waiter, "acquire") /\ res[Waiter] = "true"
          \/ err[Waiter]
          \/ /\ Waiting0(Waiter)
             /\ store[KeyOf(Waiter)] # Absent
             /\ store[KeyOf(Waiter)].tok # tok[Waiter]

\* a call with timeout 0 found the key held, slept, tried again and acquired
C5_Witness ==
    \E t \in Tasks :
        /\ Returned(t, "acquire") /\ op[t].timeout = <<0>>
        /\ res[t] = "true" /\ attempts[t] >= 2
        /\ store[KeyOf(t)] # Absent
        /\ store[KeyOf(t)].tok = maps[TokenMapId(t)][op[t].name]

\* C6 as claimed (its safety part): acquire with timeout t > 0 never returns false
\* before the elapsed time has reached t, and issues no set once it has reached t.
C6_Original ==
    \A t \in Tasks :
        (Timed(t) /\ ~err[t])
        => /\ (pc[t] = "done" /\ res[t] = "false") => elapsed[t] >= op[t].timeout[1]
           /\ lateSets[t] = 0

\* C6 amended: acquire with timeout t > 0 terminates; while the store is reachable
\* it never returns false before the elapsed time has reached t; and once the
\* elapsed time has reached t it issues at most one more set, the one that follows
\* its last sleep.
C6_TimeoutBounded ==
    /\ [](\A t \in Tasks :
            (Timed(t) /\ ~err[t])
            => /\ (pc[t] = "done" /\ res[t] = "false")
                  => elapsed[t] >= op[t].timeout[1]
               /\ lateSets[t] <= 1)
    /\ (InCall(Waiter, "acquire") /\ Timed(Waiter)) ~> (pc[Waiter] = "done")

\* a call with a timeout that is no multiple of the polling interval found the key
\* held at every attempt, the last of them issued after the timeout, and returned false
C6_Witness ==
    \E t \in Tasks :
        /\ Returned(t, "acquire") /\ Timed(t) /\ op[t].timeout = <<MaxTimeout>>
        /\ res[t] = "false" /\ ~err[t]
        /\ lateSets[t] = 1
        /\ elapsed[t] >= op[t].timeout[1]

\* C7: acquire without timeout makes exactly one set attempt; when the key is held
\* the attempt changes nothing in the store, and the call returns false at once,
\* without sleeping, leaving the store and the token map as they are.
C7_SingleAttempt ==
    /\ [](\A t \in Tasks :
            (op[t].kind = "acquire" /\ op[t].timeout = NoTimeout)
            => /\ pc[t] # "sleep"
               /\ attempts[t] <= 1
               /\ res[t] # "raised" => attempts[t] = 1)
    /\ [][\A t \in Tasks :
            (op[t].kind = "acquire" /\ op[t].timeout = NoTimeout)
            => /\ (pc[t] = "call" /\ pc'[t] = "resume" /\ reply'[t] # "err"
                   /\ store[KeyOf(t)] # Absent)
                  => store' = store /\ reply'[t] = "0" /\ maps' = maps
               /\ (pc[t] = "resume" /\ reply[t] = "0" /\ pc'[t] # "resume")
                  => /\ pc'[t] = "done" /\ res'[t] = "false"
                     /\ store' = store /\ maps' = maps /\ ctx' = ctx
       ]_vars

\* a call without timeout found the key held by the other task and returned false
C7_Witness ==
    \E t \in Tasks :
        /\ Returned(t, "acquire") /\ op[t].timeout = NoTimeout
        /\ res[t] = "false" /\ ~err[t] /\ attempts[t] = 1
        /\ store[KeyOf(t)] # Absent
        /\ maps[TokenMapId(t)][op[t].name] # store[KeyOf(t)].tok

(***************************************************************************)
(* Properties of UnitOfWork.                                               *)
(***************************************************************************)
IsEnd(c) == c[1] \in {"commit", "rollback"}
Ends(s) == SelectSeq(did[s], IsEnd)

\* C8: every exit of a scope performs exactly one of commit and rollback: a commit
\* when the body completed without error, a rollback when the body raised.
C8_CommitOrRollback ==
    \A s \in Scopes :
        /\ spc[s] \in {"out", "body"} => did[s] = <<>>
        /\ spc[s] \in {"exit", "close", "exited"}
           => /\ Len(Ends(s)) = 1
              /\ exc[s] = "none" => Ends(s)[1][1] = "commit"
              /\ exc[s] # "none" => Ends(s)[1][1] = "rollback"

\* C9: the session a scope obtained at its entry is closed on every exit path of
\* the scope, after the commit or rollback.
C9_ClosedOnEveryExit ==
    \A s \in Scopes :
        spc[s] = "exited"
        => /\ Len(did[s]) = 2
           /\ IsEnd(did[s][1])
           /\ did[s][2] = <<"close", mine[s]>>

\* C10: every scope commits or rolls back, and closes, the session it obtained at
\* its own entry, so that no session receives a second commit-or-rollback or a
\* second close.
C10_OwnSession ==
    /\ \A s \in Scopes : \A i \in 1..Len(did[s]) : did[s][i][2] = mine[s]
    /\ \A x \in Sessions :
          /\ Len(SelectSeq(slog[x], LAMBDA c : c \in {"commit", "rollback"})) <= 1
          /\ Len(SelectSeq(slog[x], LAMBDA c : c = "close")) <= 1

Calls(s) == [i \in 1..Len(did[s]) |-> did[s][i][1]]

\* C11 as claimed: an exception raised by the body of a scope reaches the caller
\* unchanged, after rollback and close have both completed.
C11_Original ==
    \A s \in Scopes :
        (spc[s] = "exited" /\ exc[s] # "none")
        => raised[s] = "body" /\ Calls(s) = <<"rollback", "close">>

(***************************************************************************)
(* Properties of MongoDBLoggingMiddleware.                                 *)
(***************************************************************************)
\* C12: every request makes exactly one call of LogRepository.create: none before
\* call_next has ended, one once it has returned or raised, and no second one
\* when the create call fails.
C12_CreateOnce ==
    /\ mwPc = "down" => mwCalls = <<>>
    /\ mwPc \in {"log", "elog", "done"} => Len(mwCalls) = 1

\* a request whose create call failed has ended with one create call
C12_Witness ==
    /\ mwPc = "done" /\ mwLogErr # NoError
    /\ Len(mwCalls) = 1

\* C13: the outcome of dispatch is the outcome of call_next: the same response
\* is returned, the same exception is raised, whether or not create failed.
C13_OutcomeUnchanged ==
    /\ mwPc = "done" => mwOut = mwDown /\ mwDown # Nothing
    /\ mwPc \in {"down", "log", "elog"} => mwOut = Nothing

\* call_next raised, create raised too, and dispatch raised the exception of
\* call_next
C13_Witness ==
    /\ mwPc = "done" /\ mwLogErr # NoError
    /\ mwDown.kind = "error" /\ mwOut = mwDown

\* C14: the record of a request whose call_next raised is the record the success
\* path would have persisted for it, with status code 500.
C14_FailureRecord ==
    (mwPc \in {"elog", "done"} /\ mwDown.kind = "error")
    => mwCalls = <<SuccessRecord(mwReq, 500, mwElapsed)>>

(***************************************************************************)
(* Properties of the exception handlers.                                   *)
(***************************************************************************)
\* the handled errors of runs i and j differ in their message text and in nothing
\* else
SameButText(i, j) ==
    /\ ehIn[i] # NoCall /\ ehIn[j] # NoCall
    /\ ehIn[i].detail # ehIn[j].detail
    /\ [ehIn[i] EXCEPT !.detail = ""] = [ehIn[j] EXCEPT !.detail = ""]
ServerClass(c) == c.handler = "general" \/ (c.handler = "http" /\ c.status >= 500)

\* C15: two server-class or unclassified errors that differ only in their message
\* text get identical response bodies; client-class errors carry their message.
C15_NoInternalMessage ==
    \A i, j \in Runs :
        /\ (SameButText(i, j) /\ ServerClass(ehIn[i]))
           => ehOut[i].body = ehOut[j].body
        /\ (ehIn[i].handler = "http" /\ ehIn[i].status < 500)
           => ehOut[i].body.message = ehIn[i].detail

\* C16: general_exception_handler answers every exception with status 500, code
\* INTERNAL_ERROR and the message "An unexpected error occurred".
C16_GeneralFixedAnswer ==
    \A i \in Runs :
        ehIn[i].handler = "general"
        => /\ ehOut[i].status = 500
           /\ ehOut[i].body.code = "INTERNAL_ERROR"
           /\ ehOut[i].body.message = "An unexpected error occurred"

\* two unclassified exceptions of different type and message have been answered
C16_Witness ==
    /\ ehIn[1].handler = "general" /\ ehIn[2].handler = "general"
    /\ ehIn[1].type # ehIn[2].type /\ ehIn[1].detail # ehIn[2].detail
    /\ ehOut[1].body.message = ehOut[2].body.message

\* C17: http_exception_handler answers with the status code of the error and the
\* error code the table gives for it, HTTP_ERROR for a status not in the table.
C17_StatusAndCode ==
    \A i \in Runs :
        ehIn[i].handler = "http"
        => /\ ehOut[i].status = ehIn[i].status
           /\ ehOut[i].body.code =
                 LET st == ehIn[i].status
                     table == {<<400, "BAD_REQUEST">>, <<401, "UNAUTHORIZED">>,
                               <<403, "FORBIDDEN">>, <<404, "NOT_FOUND">>,
                               <<405, "METHOD_NOT_ALLOWED">>, <<409, "CONFLICT">>,
                               <<422, "UNPROCESSABLE_ENTITY">>,
                               <<429, "RATE_LIMIT_EXCEEDED">>,
                               <<500, "INTERNAL_ERROR">>, <<502, "BAD_GATEWAY">>,
                               <<503, "SERVICE_UNAVAILABLE">>,
                               <<504, "GATEWAY_TIMEOUT">>}
                 IN  IF \E p \in table : p[1] = st
                     THEN (CHOOSE p \in table : p[1] = st)[2]
                     ELSE "HTTP_ERROR"

\* a status of the table and a status outside it have been answered
C17_Witness ==
    /\ ehIn[1].handler = "http" /\ ehIn[1].status = 429
    /\ ehOut[1].status = 429 /\ ehOut[1].body.code = "RATE_LIMIT_EXCEEDED"
    /\ ehIn[2].handler = "http" /\ ehIn[2].status = 418
    /\ ehOut[2].status = 418 /\ ehOut[2].body.code = "HTTP_ERROR"

(***************************************************************************)
(* Properties of LLMManager.                                               *)
(***************************************************************************)
Gets == {i \in 1..Len(llmRet) : llmRet[i].call \in {"get_model", "get_llm_model"}}

\* C18: every known client is constructed exactly once: none before the first
\* get_model / initialize call, one for each of the three identifiers from then
\* on; no later call constructs or replaces a client; get_model with a known
\* identifier always returns the same instance.
C18_ClientsBuiltOnce ==
    /\ [](/\ ~llmInitialized
             => \A n \in ModelNames : llmBuilt[n] = 0 /\ llmModels[n] = None
          /\ llmInitialized
             => /\ \A n \in ModelNames : llmBuilt[n] = 1 /\ llmModels[n] # None
                /\ \A n, m \in ModelNames : n # m => llmModels[n] # llmModels[m]
                /\ llmMade = 3
          /\ llmInitialized <=> \E i \in 1..Len(llmRet) :
                llmRet[i].call \in {"get_model", "get_llm_model",
                                    "initialize_llm_manager"}
          /\ \A i \in Gets :
                IF llmRet[i].name \in ModelNames
                THEN llmRet[i].ok /\ llmRet[i].client = llmModels[llmRet[i].name]
                ELSE ~llmRet[i].ok
          /\ \A i, j \in Gets :
                llmRet[i].name = llmRet[j].name => llmRet[i].client = llmRet[j].client)
    /\ [][llmInitialized => llmModels' = llmModels /\ llmBuilt' = llmBuilt]_vars

(***************************************************************************)
(* Properties of RequestIDMiddleware.                                      *)
(***************************************************************************)
RidAnswered == ridPc = "done" /\ ridOut.kind = "response"

\* C19 as claimed: when the request carries an X-Request-ID header its value is
\* on the response and in request.state; when it carries none the generator is
\* called once and its value is on both.
C19_Original ==
    RidAnswered
    => IF ridReq.header # NoHeader
       THEN ridOut.header = ridReq.header /\ ridState = ridReq.header[1]
       ELSE /\ ridGen = 1 /\ ridState \in GeneratedIds
            /\ ridOut.header = <<ridState>>

\* C19 amended: when the request carries an X-Request-ID header with a value that
\* is not empty, that value is on the response and in request.state and the
\* generator is not called; when it carries none, or an empty one, the generator
\* is called once and its value is on both.
C19_EchoOrGenerate ==
    RidAnswered
    => IF ridReq.header # NoHeader /\ ridReq.header[1] # ""
       THEN /\ ridOut.header = ridReq.header /\ ridState = ridReq.header[1]
            /\ ridGen = 0
       ELSE /\ ridGen = 1 /\ ridState \in GeneratedIds
            /\ ridOut.header = <<ridState>>

\* a request with an empty header has been answered with a generated value
C19_Witness ==
    /\ RidAnswered
    /\ ridReq.header = <<"">> /\ ridGen = 1
    /\ ridState \in GeneratedIds /\ ridOut.header = <<ridState>>

(***************************************************************************)
(* Properties of DistributedLock.lock.                                     *)
(***************************************************************************)
\* C20: a block calls acquire once and yields its result; it calls release once on
\* exit, after a body that ended normally or raised, exactly when acquire returned
\* true; a block whose acquire returned false calls no release and leaves the
\* store and the token map as they are, also when the task holds the same name
\* from an outer block.
C20_ScopedRelease ==
    /\ [](\A t \in Tasks :
            /\ \A i \in 1..Len(scFrames[t]) :
                  LET f == scFrames[t][i]
                  IN  /\ f.nAcq = 1
                      /\ f.phase \in {"acquire", "body"} => f.nRel = 0
                      /\ f.phase = "release" => f.nRel = 1 /\ f.acquired
            /\ scLast[t] # NoFrame
               => /\ scLast[t].nAcq = 1
                  /\ scLast[t].ended \in {"normal", "raised"}
                  /\ scLast[t].nRel = IF scLast[t].acquired THEN 1 ELSE 0)
    /\ [][\A t \in Tasks :
            /\ (scFrames[t] # <<>> /\ Top(t).phase = "acquire"
                /\ Len(scFrames'[t]) = Len(scFrames[t])
                /\ scFrames'[t] # scFrames[t])
               => scFrames'[t][Len(scFrames[t])].acquired = (res[t] = "true")
            /\ (Len(scFrames'[t]) < Len(scFrames[t]) /\ ~Top(t).acquired)
               => store' = store /\ maps' = maps
       ]_vars

\* a task that holds the name from an outer block has left an inner block on the
\* same name whose acquire returned false, after a body that raised, and still
\* holds the key
C20_Witness ==
    \E t \in Tasks :
        /\ Len(scFrames[t]) = 1
        /\ scFrames[t][1].phase = "body" /\ scFrames[t][1].acquired
        /\ scLast[t].name = scFrames[t][1].name
        /\ ~scLast[t].acquired /\ scLast[t].nRel = 0 /\ scLast[t].ended = "raised"
        /\ store[LockKey(scFrames[t][1].name)] # Absent
        /\ store[LockKey(scFrames[t][1].name)].tok
              = maps[TokenMapId(t)][scFrames[t][1].name]

\* C21: a failure of the lock store, obtaining the store client included, never
\* leaves a lock operation as an exception: the operation that met the failure
\* returns false, and the step on which it returns leaves every token map as
\* it was.
C21_StoreFailuresReturnFalse ==
    [][\A t \in Tasks :
          (pc[t] # "done" /\ pc'[t] = "done" /\ err'[t])
              => (res'[t] = "false" /\ maps' = maps)]_vars


\* C22: when extend's script runs at the store while the key holds the token
\* the caller presents, the key keeps that token, its remaining time to live
\* becomes exactly ttl seconds whatever it was before, and extend returns true;
\* when the key has expired, the script of a caller that still has its token
\* recorded leaves the key absent and extend returns false.
C22_ExtendResetsTtl ==
    [][\A t \in Tasks :
        /\ (pc[t] = "call" /\ op[t].kind = "extend" /\ pc'[t] = "resume"
            /\ reply'[t] # "err" /\ store[KeyOf(t)] # Absent
            /\ store[KeyOf(t)].tok = tok[t])
           => /\ reply'[t] = "1"
              /\ store' = [store EXCEPT
                             ![KeyOf(t)] = [tok |-> tok[t],
                                            rem |-> op[t].ttl * TicksPerSecond]]
        /\ (pc[t] = "resume" /\ op[t].kind = "extend" /\ pc'[t] = "done"
            /\ reply[t] = "1")
           => res'[t] = "true" /\ store' = store /\ maps' = maps
        /\ (pc[t] = "call" /\ op[t].kind = "extend" /\ pc'[t] = "resume"
            /\ reply'[t] # "err" /\ store[KeyOf(t)] = Absent)
           => /\ reply'[t] = "0"
              /\ store'[KeyOf(t)] = Absent
              /\ maps' = maps
        /\ (pc[t] = "resume" /\ op[t].kind = "extend" /\ pc'[t] = "done"
            /\ reply[t] = "0" /\ store[KeyOf(t)] = Absent)
           => res'[t] = "false" /\ store'[KeyOf(t)] = Absent /\ maps' = maps
      ]_vars

\* one task's extend has returned true, and later the script of another task,
\* whose token is still recorded, found the key expired and left it absent
C22_Witness ==
    \E a, b \in Tasks :
        /\ a # b
        /\ Returned(a, "extend") /\ res[a] = "true"
        /\ pc[b] = "resume" /\ op[b].kind = "extend" /\ reply[b] = "0"
        /\ maps[TokenMapId(b)][op[b].name] # None
        /\ store[KeyOf(b)] = Absent


\* what is_owned_by_me(n) would answer task t in this state (lines 167-173)
WouldOwn(t, n) ==
    /\ maps[TokenMapId(t)][n] # None
    /\ store[LockKey(n)].tok = maps[TokenMapId(t)][n]

\* C23: ownership is unique: for each lock name at most one task would get true
\* from is_owned_by_me, and a task that would get true finds the key present,
\* holding a token that an acquire of that very task drew and recorded.
C23_OwnershipUnique ==
    \A n \in Names :
        /\ \A a, b \in Tasks : (WouldOwn(a, n) /\ WouldOwn(b, n)) => a = b
        /\ \A t \in Tasks :
              WouldOwn(t, n) => /\ store[LockKey(n)] # Absent
                                /\ store[LockKey(n)].tok \in Pool(t)

====
